---- MODULE Spec2Model ----
(***************************************************************************)
(* Model of tools/serial_client/serial_client.py: the CRC-16/Modbus        *)
(* checksum, the scalar coercions parse_u8 and data_to_2_bytes, and the    *)
(* CommandSender that builds frames and writes them to a serial port.      *)
(*                                                                         *)
(* Python values are tagged records: IntV(n), BytesV(b), ByteArrayV(b),     *)
(* StrV(s), NoneV and FloatV (a type no function here accepts).  Text is    *)
(* a sequence of one-character strings, bytes a sequence of 0..255.        *)
(* A call either returns, Ok(value), or raises, Raise(exc, msg).           *)
(***************************************************************************)
EXTENDS Integers, Sequences, FiniteSets, TLC

VARIABLES stx, open, written, returned, first, call, res

vars == <<stx, open, written, returned, first, call, res>>

(***************************************************************************)
(* Python values and call outcomes                                         *)
(***************************************************************************)
IntV(n) == [t |-> "int", i |-> n]

BytesV(b) == [t |-> "bytes", b |-> b]

ByteArrayV(b) == [t |-> "bytearray", b |-> b]

StrV(s) == [t |-> "str", s |-> s]

NoneV == [t |-> "none"]

FloatV == [t |-> "float"]

Ok(v) == [ok |-> TRUE, v |-> v]

Raise(exc, msg) == [ok |-> FALSE, exc |-> exc, msg |-> msg]

Pending == [ok |-> FALSE, exc |-> "pending", msg |-> ""]

U8RangeMsg == "Value out of range for u8 (0..255)"

DataRangeMsg == "DATA int must be in 0..255"

LenRangeMsg == "Frame LEN out of range (2..255). Payload too large?"

IntLiteralMsg == "invalid literal for int()"

(***************************************************************************)
(* Bit operations on non-negative integers (Python's ^, & and >>)          *)
(***************************************************************************)
Bit(a, i) == (a \div (2 ^ i)) % 2

\* a ^ b and a & b on the low eight bits
Xor8(a, b) ==
    ((((Bit(a, 0) + Bit(b, 0)) % 2) + (2 * ((Bit(a, 1) + Bit(b, 1)) % 2)))
     + ((4 * ((Bit(a, 2) + Bit(b, 2)) % 2)) + (8 * ((Bit(a, 3) + Bit(b, 3)) % 2))))
    + (((16 * ((Bit(a, 4) + Bit(b, 4)) % 2)) + (32 * ((Bit(a, 5) + Bit(b, 5)) % 2)))
       + ((64 * ((Bit(a, 6) + Bit(b, 6)) % 2)) + (128 * ((Bit(a, 7) + Bit(b, 7)) % 2))))

And8(a, b) ==
    (((Bit(a, 0) * Bit(b, 0)) + (2 * (Bit(a, 1) * Bit(b, 1))))
     + ((4 * (Bit(a, 2) * Bit(b, 2))) + (8 * (Bit(a, 3) * Bit(b, 3)))))
    + (((16 * (Bit(a, 4) * Bit(b, 4))) + (32 * (Bit(a, 5) * Bit(b, 5))))
       + ((64 * (Bit(a, 6) * Bit(b, 6))) + (128 * (Bit(a, 7) * Bit(b, 7)))))

\* byte by byte, for as many bytes as the larger operand has
RECURSIVE BitXor(_, _)
BitXor(a, b) ==
    IF a < 256 /\ b < 256 THEN Xor8(a, b)
    ELSE Xor8(a % 256, b % 256) + (256 * BitXor(a \div 256, b \div 256))

RECURSIVE BitAnd(_, _)
BitAnd(a, b) ==
    IF a < 256 /\ b < 256 THEN And8(a, b)
    ELSE And8(a % 256, b % 256) + (256 * BitAnd(a \div 256, b \div 256))

Shr(a, n) == a \div (2 ^ n)

(***************************************************************************)
(* crc16_modbus                                                            *)
(***************************************************************************)
CrcInit == 65535

CrcPoly == 40961

\* the low bit read after the shift instead of before it
CrcShift_late_lsb(crc) ==
    LET shifted == Shr(crc, 1)
        lsb == BitAnd(shifted, 1)
    IN IF lsb # 0 THEN BitXor(shifted, CrcPoly) ELSE shifted

\* one pass of the inner loop body: lsb = crc & 1; crc >>= 1; if lsb: crc ^= poly
CrcShift(crc) ==
    LET lsb == BitAnd(crc, 1)
        shifted == Shr(crc, 1)
    IN IF lsb # 0 THEN BitXor(shifted, CrcPoly) ELSE shifted

\* for _ in range(8): ...   Each pass is computed from the value the pass
\* before it left in the register.
RECURSIVE CrcBits(_, _)
CrcBits(crc, n) ==
    IF n = 0 THEN crc
    ELSE CHOOSE r \in {CrcBits(next, n - 1) : next \in {CrcShift(crc)}} : TRUE

\* the outer loop body: crc ^= b, then the eight shifts
CrcByte(crc, b) == CHOOSE r \in {CrcBits(mixed, 8) : mixed \in {BitXor(crc, b)}} : TRUE

\* the outer loop over data[lo..hi], bytes taken left to right: the left
\* half of the range first, then the right half from the register it left
RECURSIVE CrcLoop(_, _, _, _)
CrcLoop(crc, data, lo, hi) ==
    CASE lo > hi -> crc
      [] lo = hi -> CrcByte(crc, data[lo])
      [] OTHER -> CHOOSE r \in {CrcLoop(left, data, ((lo + hi) \div 2) + 1, hi) :
                                   left \in {CrcLoop(crc, data, lo, (lo + hi) \div 2)}} : TRUE

crc16_modbus(data) == BitAnd(CrcLoop(CrcInit, data, 1, Len(data)), 65535)

(***************************************************************************)
(* Text: str.strip, str.lower, bytes.decode and int(s, base)               *)
(***************************************************************************)
HexDigits == <<"0", "1", "2", "3", "4", "5", "6", "7",
               "8", "9", "a", "b", "c", "d", "e", "f">>

\* the characters the model's texts are written in, with their ASCII codes
AsciiChars == HexDigits \o <<"A", "B", "C", "D", "E", "F", "x", "X", " ", "-", "+", "g">>

AsciiCodes == <<48, 49, 50, 51, 52, 53, 54, 55, 56, 57, 97, 98, 99, 100, 101, 102,
                65, 66, 67, 68, 69, 70, 120, 88, 32, 45, 43, 103>>

IsSpace(c) == c = " "

RECURSIVE LStrip(_)
LStrip(s) == IF s # <<>> /\ IsSpace(Head(s)) THEN LStrip(Tail(s)) ELSE s

RECURSIVE RStrip(_)
RStrip(s) ==
    IF s # <<>> /\ IsSpace(s[Len(s)]) THEN RStrip(SubSeq(s, 1, Len(s) - 1)) ELSE s

Strip(s) == RStrip(LStrip(s))

LowerChar(c) ==
    CASE c = "A" -> "a" [] c = "B" -> "b" [] c = "C" -> "c" [] c = "D" -> "d"
      [] c = "E" -> "e" [] c = "F" -> "f" [] c = "X" -> "x" [] OTHER -> c

Lower(s) == [k \in 1..Len(s) |-> LowerChar(s[k])]

StartsWith0x(s) == Len(s) >= 2 /\ s[1] = "0" /\ s[2] = "x"

\* c in "0123456789abcdef"
IsHexDigit(c) == \E d \in 1..16 : HexDigits[d] = c

\* the value of a lower-case digit character, 16 when it is no digit
DigitOf(c) == IF IsHexDigit(c) THEN (CHOOSE d \in 1..16 : HexDigits[d] = c) - 1 ELSE 16

RECURSIVE DigitsValue(_, _)
DigitsValue(d, base) ==
    IF d = <<>> THEN 0
    ELSE (DigitsValue(SubSeq(d, 1, Len(d) - 1), base) * base) + DigitOf(d[Len(d)])

\* Python's int(s, base) for base 10 and 16: surrounding whitespace, one
\* optional sign, for base 16 an optional 0x/0X prefix, then at least one digit
PyIntValue(d, base, neg) ==
    IF d = <<>> \/ \E k \in 1..Len(d) : DigitOf(d[k]) >= base
    THEN Raise("ValueError", IntLiteralMsg)
    ELSE Ok(IntV(IF neg THEN 0 - DigitsValue(d, base) ELSE DigitsValue(d, base)))

PyIntDigits(u, base, neg) ==
    PyIntValue(IF base = 16 /\ StartsWith0x(u) THEN SubSeq(u, 3, Len(u)) ELSE u, base, neg)

PyIntSigned(t, base) ==
    IF t # <<>> /\ t[1] \in {"-", "+"} THEN PyIntDigits(Tail(t), base, t[1] = "-")
    ELSE PyIntDigits(t, base, FALSE)

PyInt(s, base) == PyIntSigned(Lower(Strip(s)), base)

\* bytes.decode(errors="strict"): a byte of 128 or more that starts no valid
\* UTF-8 sequence raises; the model's text bytes are ASCII codes or 0xFF
CharOf(code) == AsciiChars[CHOOSE k \in 1..Len(AsciiCodes) : AsciiCodes[k] = code]

Decode(b) ==
    IF \E k \in 1..Len(b) : b[k] >= 128
    THEN Raise("UnicodeDecodeError", "invalid start byte")
    ELSE Ok(StrV([k \in 1..Len(b) |-> CharOf(b[k])]))

(***************************************************************************)
(* parse_u8                                                                *)
(***************************************************************************)
\* the upper limit off by one
U8Range_256(v) ==
    IF ~(0 <= v /\ v <= 256) THEN Raise("ValueError", U8RangeMsg) ELSE Ok(IntV(v))

U8Range(v) ==
    IF ~(0 <= v /\ v <= 255) THEN Raise("ValueError", U8RangeMsg) ELSE Ok(IntV(v))

\* v = int(...) followed by the range test
parse_u8_range(parsed) == IF ~parsed.ok THEN parsed ELSE U8Range(parsed.v.i)

\* bare numerals read in base 10
parse_u8_text_decimal(s) ==
    parse_u8_range(IF StartsWith0x(s) THEN PyInt(s, 16) ELSE PyInt(s, 10))

\* the isinstance(x, str) branch, on s = x.strip().lower()
parse_u8_text(s) ==
    parse_u8_range(IF StartsWith0x(s) THEN PyInt(s, 16)
                   ELSE IF \A k \in 1..Len(s) : IsHexDigit(s[k]) THEN PyInt(s, 16)
                   ELSE PyInt(s, 10))

parse_u8_str(x) == parse_u8_text(Lower(Strip(x)))

\* the isinstance(x, bytes) branch for other than one byte, on x.decode()
parse_u8_decoded(dec) == IF ~dec.ok THEN dec ELSE parse_u8_str(Strip(dec.v.s))

parse_u8(x) ==
    CASE x.t = "int" -> U8Range(x.i)
      [] x.t = "bytes" -> IF Len(x.b) = 1 THEN Ok(IntV(x.b[1])) ELSE parse_u8_decoded(Decode(x.b))
      [] x.t = "str" -> parse_u8_str(x.s)
      [] OTHER -> Raise("TypeError", "Unsupported type for u8")

(***************************************************************************)
(* data_to_2_bytes                                                         *)
(***************************************************************************)
\* the two bytes in little-endian order
data_to_2_bytes_int_le(v) ==
    IF v = 0 THEN Ok(BytesV(<<0, 0>>))
    ELSE IF ~(0 <= v /\ v <= 255) THEN Raise("ValueError", DataRangeMsg)
    ELSE Ok(BytesV(<<v, 0>>))

\* the isinstance(data, int) branch
data_to_2_bytes_int(v) ==
    IF v = 0 THEN Ok(BytesV(<<0, 0>>))
    ELSE IF ~(0 <= v /\ v <= 255) THEN Raise("ValueError", DataRangeMsg)
    ELSE Ok(BytesV(<<0, v>>))

\* v = int(...) followed by the recursion on the integer
data_to_2_bytes_parsed(parsed) ==
    IF ~parsed.ok THEN parsed ELSE data_to_2_bytes_int(parsed.v.i)

\* the isinstance(data, str) branch, on data.strip()
data_to_2_bytes_str(s) ==
    IF s = <<>> THEN Ok(BytesV(<<>>))
    ELSE data_to_2_bytes_parsed(IF StartsWith0x(Lower(s)) THEN PyInt(s, 16) ELSE PyInt(s, 10))

\* the isinstance(data, (bytes, bytearray)) branch, on bytes(data)
data_to_2_bytes_bytes(bts) ==
    IF Len(bts) = 0 THEN Ok(BytesV(<<>>))
    ELSE IF Len(bts) = 1 THEN Ok(BytesV(<<0, bts[1]>>))
    ELSE IF Len(bts) = 2 THEN Ok(BytesV(bts))
    ELSE Ok(BytesV(bts))

data_to_2_bytes(data) ==
    CASE data.t = "none" -> Ok(BytesV(<<>>))
      [] data.t \in {"bytes", "bytearray"} -> data_to_2_bytes_bytes(data.b)
      [] data.t = "str" -> data_to_2_bytes_str(Strip(data.s))
      [] data.t = "int" -> data_to_2_bytes_int(data.i)
      [] OTHER -> Raise("TypeError", "Unsupported DATA type")

(***************************************************************************)
(* CommandSender                                                           *)
(***************************************************************************)
\* __init__: self.stx = stx & 0xFF (Python's & on a negative int is the
\* two's-complement residue)
Construct(stxArg) == stxArg % 256

MaxLEN == 255

\* return head + bytes([crcl, crch])
frame_sealed(head, crc) ==
    Ok(BytesV(head \o <<BitAnd(crc, 255), BitAnd(Shr(crc, 8), 255)>>))

\* the length limit off by one
frame_checked_len256(s, addr_u8, cmd_u8, payload, length) ==
    IF ~(2 <= length /\ length <= MaxLEN + 1) THEN Raise("ValueError", LenRangeMsg)
    ELSE frame_sealed(<<s, length, addr_u8, cmd_u8>> \o payload,
                      crc16_modbus(<<s, length, addr_u8, cmd_u8>> \o payload))

\* the length test, head and its CRC
frame_checked(s, addr_u8, cmd_u8, payload, length) ==
    IF ~(2 <= length /\ length <= MaxLEN) THEN Raise("ValueError", LenRangeMsg)
    ELSE frame_sealed(<<s, length, addr_u8, cmd_u8>> \o payload,
                      crc16_modbus(<<s, length, addr_u8, cmd_u8>> \o payload))

\* LEN counting STX and LEN as well
frame_coerced_len4(s, a, c, p) ==
    IF ~a.ok THEN a
    ELSE IF ~c.ok THEN c
    ELSE IF ~p.ok THEN p
    ELSE frame_checked(s, a.v.i, c.v.i, p.v.b, 4 + Len(p.v.b))

\* the three coercions in the order the code makes them, then the length
frame_coerced(s, a, c, p) ==
    IF ~a.ok THEN a
    ELSE IF ~c.ok THEN c
    ELSE IF ~p.ok THEN p
    ELSE frame_checked(s, a.v.i, c.v.i, p.v.b, 2 + Len(p.v.b))

build_frame(s, addr, cmd, data) ==
    frame_coerced(s, parse_u8(addr), parse_u8(cmd), data_to_2_bytes(data))

DefaultStx == 165

\* self.ser.write(frame); return frame -- a closed port refuses the write
send_frame(isOpen, frame) ==
    IF ~frame.ok THEN frame
    ELSE IF ~isOpen THEN Raise("PortNotOpenError", "port is not open")
    ELSE frame

\* send, up to the write: the frame is built first, then handed to the port
send_result(s, isOpen, addr, cmd, data) == send_frame(isOpen, build_frame(s, addr, cmd, data))

(***************************************************************************)
(* Bounds and the inputs drawn within them                                 *)
(***************************************************************************)
MaxLen == 3

MaxTextLen == 3

MaxSends == 2

SeqsUpTo(S, n) == UNION {[1..k -> S] : k \in 0..n}

\* Python's hex(v) and str(v) for v >= 0
RECURSIVE ToText(_, _)
ToText(v, base) ==
    IF v < base THEN <<HexDigits[v + 1]>>
    ELSE ToText(v \div base, base) \o <<HexDigits[(v % base) + 1]>>

Hex(v) == <<"0", "x">> \o ToText(v, 16)

Dec(v) == ToText(v, 10)

IntInputs == {IntV(n) : n \in (0 - 2)..(MaxLEN + 3)}

TextChars == {"0", "1", "a", "F", "x", " ", "-", "+", "g"}

TextInputs ==
    {StrV(s) : s \in SeqsUpTo(TextChars, MaxTextLen)}
    \cup {StrV(Hex(v)) : v \in 0..(MaxLEN + 3)}
    \cup {StrV(Dec(v)) : v \in 0..(MaxLEN + 3)}
    \cup {StrV(<<" ", "0", "X", "1", "F", " ">>), StrV(<<"0", "x", "-", "1">>)}

\* ASCII text handed over as bytes, and one byte that is no UTF-8
TextByteInputs == {BytesV(b) : b \in SeqsUpTo({48, 49, 120, 32, 255}, MaxTextLen)}

RawByteInputs == {BytesV(<<b>>) : b \in 0..255}

CheckText == <<49, 50, 51, 52, 53, 54, 55, 56, 57>>

CrcInputs == SeqsUpTo({0, 1, 128, 255}, MaxLen) \cup {CheckText}

U8Inputs ==
    IntInputs \cup TextInputs \cup TextByteInputs \cup RawByteInputs
    \cup {NoneV, FloatV, ByteArrayV(<<1>>)}

LongPayload(n) == [k \in 1..n |-> k % 256]

LongLens == (MaxLEN - 5)..MaxLEN

PayloadInputs ==
    {BytesV(b) : b \in SeqsUpTo({0, 7, 255}, MaxLen)}
    \cup {ByteArrayV(b) : b \in SeqsUpTo({7}, MaxLen)}
    \cup {BytesV(LongPayload(n)) : n \in LongLens}

DataInputs == IntInputs \cup TextInputs \cup PayloadInputs \cup {NoneV, FloatV}

StxArgs == {DefaultStx, 258, 0 - 1}

BuildAddrs == {IntV(1), IntV(255), IntV(256), StrV(<<"1", "0">>), BytesV(<<7>>)}

BuildCmds == {IntV(2), StrV(<<"0", "x", "1", "f">>), StrV(<<"g">>)}

BuildData ==
    {NoneV, FloatV, IntV(0), IntV(25), IntV(300), StrV(<<"1", "0">>), StrV(<<"0", "x">>),
     ByteArrayV(<<1, 2>>)}
    \cup {BytesV(b) : b \in SeqsUpTo({0, 255}, MaxLen - 1)}
    \cup {BytesV(LongPayload(n)) : n \in LongLens}

Calls ==
    {[f |-> "crc16_modbus", bytes |-> d] : d \in CrcInputs}
    \cup {[f |-> "parse_u8", x |-> x] : x \in U8Inputs}
    \cup {[f |-> "data_to_2_bytes", data |-> d] : d \in DataInputs}
    \cup {[f |-> "build_frame", addr |-> a, cmd |-> c, data |-> d] :
             a \in BuildAddrs, c \in BuildCmds, d \in BuildData}

NoBuild == [f |-> "none"]

(***************************************************************************)
(* The functions applied to drawn inputs                                   *)
(***************************************************************************)
InitFn ==
    /\ call \in Calls
    /\ stx \in (IF call.f = "build_frame" THEN {Construct(a) : a \in StxArgs}
                ELSE {Construct(DefaultStx)})
    /\ res = Pending
    /\ open = TRUE
    /\ written = <<>>
    /\ returned = <<>>
    /\ first = NoBuild

CallCrc ==
    /\ call.f = "crc16_modbus"
    /\ res' = Ok(IntV(crc16_modbus(call.bytes)))
    /\ UNCHANGED <<stx, open, written, returned, first, call>>

CallParseU8 ==
    /\ call.f = "parse_u8"
    /\ res' = parse_u8(call.x)
    /\ UNCHANGED <<stx, open, written, returned, first, call>>

CallDataTo2Bytes ==
    /\ call.f = "data_to_2_bytes"
    /\ res' = data_to_2_bytes(call.data)
    /\ UNCHANGED <<stx, open, written, returned, first, call>>

CallBuildFrame ==
    /\ call.f = "build_frame"
    /\ res' = build_frame(stx, call.addr, call.cmd, call.data)
    /\ UNCHANGED <<stx, open, written, returned, first, call>>

NextFn == CallCrc \/ CallParseU8 \/ CallDataTo2Bytes \/ CallBuildFrame

SpecFn == InitFn /\ [][NextFn]_vars

(***************************************************************************)
(* One CommandSender and its serial port                                   *)
(***************************************************************************)
SenderStxArgs == {DefaultStx, 258}

SendAddrs == {IntV(1)}

BuildCallAddrs == {IntV(1), IntV(256)}

SendCmds == {IntV(2)}

SendData == {IntV(0), IntV(300), BytesV(<<7>>), BytesV(LongPayload(MaxLEN - 1))}

BuildCallData == {IntV(0), IntV(300)}

\* what the device may answer within the timeout: nothing, or some bytes
RxReplies == {<<>>, <<6>>}

Init ==
    /\ stx \in {Construct(a) : a \in SenderStxArgs}
    /\ open = TRUE
    /\ written = <<>>
    /\ returned = <<>>
    /\ first = NoBuild
    /\ call = [f |-> "__init__"]
    /\ res = Ok(NoneV)

\* comm.build_frame(addr, cmd, data); first keeps the first such call
BuildFrameCall(addr, cmd, data) ==
    /\ call' = [f |-> "build_frame", addr |-> addr, cmd |-> cmd, data |-> data]
    /\ res' = build_frame(stx, addr, cmd, data)
    /\ first' = IF first = NoBuild
                THEN [f |-> "build_frame", call |-> call', res |-> res', sent |-> Len(written)]
                ELSE first
    /\ UNCHANGED <<stx, open, written, returned>>

\* the frame written without its two CRC bytes
send_truncated(addr, cmd, data) ==
    /\ Len(written) < MaxSends \/ ~send_result(stx, open, addr, cmd, data).ok
    /\ call' = [f |-> "send", addr |-> addr, cmd |-> cmd, data |-> data]
    /\ res' = send_result(stx, open, addr, cmd, data)
    /\ written' = IF res'.ok THEN Append(written, SubSeq(res'.v.b, 1, Len(res'.v.b) - 2))
                  ELSE written
    /\ returned' = IF res'.ok THEN Append(returned, res'.v.b) ELSE returned
    /\ UNCHANGED <<stx, open, first>>

\* comm.send(addr, cmd, data); returned keeps the frames handed back
send(addr, cmd, data) ==
    /\ Len(written) < MaxSends \/ ~send_result(stx, open, addr, cmd, data).ok
    /\ call' = [f |-> "send", addr |-> addr, cmd |-> cmd, data |-> data]
    /\ res' = send_result(stx, open, addr, cmd, data)
    /\ written' = IF res'.ok THEN Append(written, res'.v.b) ELSE written
    /\ returned' = IF res'.ok THEN Append(returned, res'.v.b) ELSE returned
    /\ UNCHANGED <<stx, open, first>>

read_any ==
    /\ call' = [f |-> "read_any"]
    /\ IF open THEN \E r \in RxReplies : res' = Ok(BytesV(r))
       ELSE res' = Raise("PortNotOpenError", "port is not open")
    /\ UNCHANGED <<stx, open, written, returned, first>>

\* closing also clears the marker
close_clears_stx ==
    /\ call' = [f |-> "close"]
    /\ res' = Ok(NoneV)
    /\ open' = FALSE
    /\ stx' = 0
    /\ UNCHANGED <<written, returned, first>>

close ==
    /\ call' = [f |-> "close"]
    /\ res' = Ok(NoneV)
    /\ open' = FALSE
    /\ UNCHANGED <<stx, written, returned, first>>

Next ==
    \/ \E a \in BuildCallAddrs, c \in SendCmds, d \in BuildCallData : BuildFrameCall(a, c, d)
    \/ \E a \in SendAddrs, c \in SendCmds, d \in SendData : send(a, c, d)
    \/ read_any
    \/ close

Spec == Init /\ [][Next]_vars

(***************************************************************************)
(* Properties                                                              *)
(***************************************************************************)
\* the drawn call has been applied and res holds its outcome
Applied == res.ok \/ res.exc # "pending"

Built == call.f = "build_frame" /\ res.ok

\* the fields of a built frame, by position
FrameLEN(fr) == fr[2]

FramePayload(fr) == SubSeq(fr, 5, Len(fr) - 2)

\* the frame validator of the protocol description: at least 6 bytes, the
\* configured STX first, LEN + 4 bytes present, CRC over LEN..end of payload
parse(s, buf) ==
    IF Len(buf) < 6 THEN Raise("FormatError", "too short")
    ELSE IF buf[1] # s THEN Raise("FormatError", "bad STX")
    ELSE IF Len(buf) < buf[2] + 4 THEN Raise("FormatError", "truncated")
    ELSE LET len == buf[2]
             crc == crc16_modbus(SubSeq(buf, 2, 2 + len))
         IN IF buf[len + 3] # crc % 256 \/ buf[len + 4] # crc \div 256
            THEN Raise("ChecksumError", "crc mismatch")
            ELSE Ok([addr |-> buf[3], cmd |-> buf[4], payload |-> SubSeq(buf, 5, 2 + len)])

\* C1: the CRC appended by build_frame is the CRC16/Modbus of
\* LEN|ADDR|CMD|PAYLOAD only (STX not covered), low byte first; and
\* build(0x01, 0x02, 0x00) under STX A5 is A5 04 01 02 00 00 75 FC
C1_CrcExcludesStx ==
    Built =>
        LET fr == res.v.b
            n == Len(fr)
            crc == crc16_modbus(SubSeq(fr, 2, n - 2))
        IN /\ fr[n - 1] = crc % 256
           /\ fr[n] = crc \div 256
           /\ (stx = 165 /\ call.addr = IntV(1) /\ call.cmd = IntV(2) /\ call.data = IntV(0))
                 => fr = <<165, 4, 1, 2, 0, 0, 117, 252>>

\* C2: a built frame is STX, LEN, ADDR, CMD, PAYLOAD, CRC_LOW, CRC_HIGH with
\* byte 0 the sender's STX, bytes 2 and 3 the coerced address and command,
\* LEN = 2 + len(PAYLOAD), 2 <= LEN <= 255 and LEN + 4 bytes in all
C2_FrameLayout ==
    Built =>
        LET fr == res.v.b
            payload == data_to_2_bytes(call.data).v.b
        IN /\ Len(fr) >= 6
           /\ \A k \in 1..Len(fr) : fr[k] \in 0..255
           /\ fr[1] = stx
           /\ fr[3] = parse_u8(call.addr).v.i
           /\ fr[4] = parse_u8(call.cmd).v.i
           /\ FramePayload(fr) = payload
           /\ FrameLEN(fr) = 2 + Len(payload)
           /\ 2 <= FrameLEN(fr) /\ FrameLEN(fr) <= 255
           /\ Len(fr) = FrameLEN(fr) + 4

C2_Witness == Built /\ FrameLEN(res.v.b) = 255 /\ call.addr = StrV(<<"1", "0">>)

\* C3: parsing a built frame with the validator's rules succeeds and gives
\* back the address, the command and the payload the frame carries
C3_RoundTrip ==
    Built =>
        LET back == parse(stx, res.v.b)
        IN /\ back.ok
           /\ back.v = [addr |-> parse_u8(call.addr).v.i,
                        cmd |-> parse_u8(call.cmd).v.i,
                        payload |-> data_to_2_bytes(call.data).v.b]

\* C4 as stated: no built frame carries more than 251 payload bytes
C4_PayloadAtMost251 == Built => Len(FramePayload(res.v.b)) <= 251

\* C4 as amended: no built frame carries more than 253 payload bytes, and a
\* byte payload longer than that is refused with the length error
C4_PayloadAtMost253 ==
    /\ Built => Len(FramePayload(res.v.b)) \in 0..253
    /\ (call.f = "build_frame" /\ Applied /\ call.data.t = "bytes" /\ Len(call.data.b) > 253
        /\ parse_u8(call.addr).ok /\ parse_u8(call.cmd).ok)
          => res = Raise("ValueError", LenRangeMsg)

C4_Witness == Built /\ Len(FramePayload(res.v.b)) = 253

\* C5: the buffers written to the port are, in order, the frames the
\* successful sends returned: a successful send writes its frame once, a
\* failing send and every other call write nothing
C5_WritesAreReturnedFrames ==
    /\ [](written = returned)
    /\ [][IF call'.f = "send" /\ res'.ok
          THEN written' = Append(written, res'.v.b)
          ELSE written' = written]_vars

C5_Witness ==
    /\ Len(written) = MaxSends
    /\ written[1] # written[2]
    /\ call.f = "send"
    /\ ~res.ok
    /\ res.msg = LenRangeMsg

\* C6: STX is one byte fixed at construction that no call changes, so a
\* build_frame repeated with the inputs of the first one returns what the
\* first returned, whatever was called in between
C6_StxFixed ==
    /\ [](stx \in 0..255)
    /\ []((call.f = "build_frame" /\ first # NoBuild /\ call = first.call) => res = first.res)
    /\ [][stx' = stx]_vars

C6_Witness ==
    /\ call.f = "build_frame"
    /\ first # NoBuild
    /\ call = first.call
    /\ res.ok
    /\ first.sent < Len(written)
    /\ ~open
    /\ stx = 2

U8Expected(v) == IF v \in 0..255 THEN Ok(IntV(v)) ELSE Raise("ValueError", U8RangeMsg)

\* C7: parse_u8 returns an integer of 0..255 unchanged, reads hex(v) back as
\* v for every v of 0..255, and refuses any other integer with the range error
C7_U8Identity ==
    (call.f = "parse_u8" /\ Applied) =>
        /\ call.x.t = "int" => res = U8Expected(call.x.i)
        /\ \A v \in 0..255 : call.x = StrV(Hex(v)) => res = Ok(IntV(v))

C7_Witness == call.f = "parse_u8" /\ call.x = StrV(Hex(255)) /\ res = Ok(IntV(255))

AllHex(s) == \A k \in 1..Len(s) : IsHexDigit(s[k])

\* an optional sign and then decimal digits only
IsDecimal(s) ==
    LET u == IF s # <<>> /\ s[1] \in {"-", "+"} THEN Tail(s) ELSE s
    IN u # <<>> /\ \A k \in 1..Len(u) : DigitOf(u[k]) < 10

DecimalValue(s) ==
    IF s[1] = "-" THEN 0 - DigitsValue(Tail(s), 10)
    ELSE IF s[1] = "+" THEN DigitsValue(Tail(s), 10)
    ELSE DigitsValue(s, 10)

PayloadExpected(v) ==
    IF v \in 0..255 THEN Ok(BytesV(<<0, v>>)) ELSE Raise("ValueError", DataRangeMsg)

\* C8: text without 0x prefix is read by parse_u8 in base 16 when all its
\* characters are hex digits ("10" is 16) and in base 10 otherwise, with the
\* range error outside 0..255; data_to_2_bytes reads it in base 10
\* ("10" gives 00 0A)
C8_BareNumerals ==
    /\ (call.f = "parse_u8" /\ Applied /\ call.x.t = "str") =>
          LET s == Lower(Strip(call.x.s))
          IN /\ (s # <<>> /\ ~StartsWith0x(s)) =>
                   IF AllHex(s) THEN res = U8Expected(DigitsValue(s, 16))
                   ELSE IF IsDecimal(s) THEN res = U8Expected(DecimalValue(s))
                   ELSE ~res.ok /\ res.exc = "ValueError" /\ res.msg = IntLiteralMsg
             /\ call.x.s = <<"1", "0">> => res = Ok(IntV(16))
    /\ (call.f = "data_to_2_bytes" /\ Applied /\ call.data.t = "str") =>
          LET s == Lower(Strip(call.data.s))
          IN /\ (s # <<>> /\ ~StartsWith0x(s)) =>
                   IF IsDecimal(s) THEN res = PayloadExpected(DecimalValue(s))
                   ELSE ~res.ok /\ res.exc = "ValueError" /\ res.msg = IntLiteralMsg
             /\ call.data.s = <<"1", "0">> => res = Ok(BytesV(<<0, 10>>))

C8_Witness == call.f = "parse_u8" /\ call.x = StrV(<<" ", "1", "0">>) /\ res = Ok(IntV(16))

RefBit(v, i) == (v \div (2 ^ i)) % 2 = 1

RefShift(r) ==
    <<r[2] # r[1], r[3], r[4], r[5], r[6], r[7], r[8], r[9],
      r[10], r[11], r[12], r[13], r[14], r[15] # r[1], r[16], r[1]>>

RefXorIn(r, b) ==
    <<r[1] # RefBit(b, 0), r[2] # RefBit(b, 1), r[3] # RefBit(b, 2), r[4] # RefBit(b, 3),
      r[5] # RefBit(b, 4), r[6] # RefBit(b, 5), r[7] # RefBit(b, 6), r[8] # RefBit(b, 7),
      r[9], r[10], r[11], r[12], r[13], r[14], r[15], r[16]>>

RefByte(r, b) ==
    RefShift(RefShift(RefShift(RefShift(RefShift(RefShift(RefShift(RefShift(RefXorIn(r, b)))))))))

RECURSIVE RefReg(_)
RefReg(data) ==
    IF data = <<>> THEN [k \in 1..16 |-> TRUE]
    ELSE CHOOSE next \in {RefByte(r, data[Len(data)]) :
                           r \in {RefReg(SubSeq(data, 1, Len(data) - 1))}} : TRUE

RECURSIVE RefValue(_, _)
RefValue(r, k) ==
    IF k > 16 THEN 0 ELSE (IF r[k] THEN 2 ^ (k - 1) ELSE 0) + RefValue(r, k + 1)

RefCrc(data) == RefValue(RefReg(data), 1)

\* C10: crc16_modbus is the reference CRC-16/Modbus (register 0xFFFF, each
\* byte XORed in, then eight right shifts with 0xA001 XORed in when a 1 was
\* shifted out), within 0..0xFFFF, 0xFFFF for no bytes, 0x4B37 for "123456789"
C10_CrcIsModbus ==
    (call.f = "crc16_modbus" /\ Applied) =>
        /\ res = Ok(IntV(RefCrc(call.bytes)))
        /\ res.v.i \in 0..65535
        /\ call.bytes = <<>> => res.v.i = 65535
        /\ call.bytes = CheckText => res.v.i = 19255

C10_Witness == call.f = "crc16_modbus" /\ call.bytes = CheckText /\ res = Ok(IntV(19255))

====
